---- MODULE Spec2Model ----
(***************************************************************************)
(* Gondolin: a local credential store.  The model covers run() of lib.rs   *)
(* (configuration, database, lock file, command dispatch, final sync and   *)
(* release), the Database of models.rs (init, open, add, remove, sync and  *)
(* the MessagePack file encoding) and the request loop of net.rs.          *)
(* Several operating-system processes run against one file system.         *)
(***************************************************************************)
EXTENDS Integers, Sequences, FiniteSets, TLC

VARIABLES
    diskFull,   \* the disk has no room: a write(2) to gondolin.db fails
    confFile,   \* gondolin.toml exists
    dbFile,     \* gondolin.db: whether it exists, and its content as a sequence of tokens
    lckFile,    \* gondolin.lck exists
    port,       \* the process bound to 127.0.0.1:port, or NoProc
    pc,         \* pc[p]: where process p is in run() / serve()
    outcome,    \* outcome[p]: how process p ended, "running" until then
    db,         \* db[p]: Database.logins of process p (HashMap<Uuid, Login>)
    should_shutdown,  \* should_shutdown[p]: the AtomicBool of serve()
    cur,        \* cur[p]: the request of the current iteration of serve()'s loop, or NoReq
    resp,       \* resp[p]: the status code it was answered with, 0 if none
    found,      \* found[p]: the matches db.query returned for it, as identifiers
    releases,   \* releases[p]: successful fs::remove_file(lck_path) calls of p
    removed,    \* removed[p]: identifiers that were keys of db[p] and were removed
    size,       \* Threadpool: the number of its workers, 0 while there is no pool
    sender,     \* Threadpool.sender is Some: the channel's only Sender is alive
    submitted,  \* the number of jobs Threadpool::exec has sent
    channel,    \* the jobs sent and not yet received, oldest first
    guard,      \* the worker that holds the Mutex of the receiver, or NoWorker
    worker,     \* worker[w]: where the thread of worker w is in its loop
    job,        \* job[w]: the job worker w has received and is executing, 0 if none
    executed,   \* executed[j]: the workers that have executed job j, in order
    owner,      \* where the thread that owns the pool is: exec, or in drop()
    joined      \* the workers whose handle drop() has joined

\* The state of the Threadpool of threadpool.rs.
pool == <<size, sender, submitted, channel, guard, worker, job, executed, owner, joined>>

vars == <<diskFull, confFile, dbFile, lckFile, port, pc, outcome, db, should_shutdown,
          cur, resp, found, releases, removed, pool>>

\* The state of the processes and of the file system.
program == <<diskFull, confFile, dbFile, lckFile, port, pc, outcome, db, should_shutdown,
             cur, resp, found, releases, removed>>

\* The memory of the processes.
local == <<db, should_shutdown, cur, resp, found, removed>>

----------------------------------------------------------------------------
(* Bounds of the model. *)

\* Size of the identifier space Uuid::new_v4() draws from.
MaxId == 2
\* Logins in the JSON body of one POST /api/v1/new.
MaxBody == 1
\* Characters in the text of a query.
MaxQuery == 2
\* Workers of a Threadpool, and jobs passed to Threadpool::exec.
MaxWorkers == 2
MaxJobs == 2

\* The processes of the two specifications.
Procs == {"p1", "p2"}
Procs3 == {"p1", "p2", "p3"}
NoProc == "none"
Ids == 1 .. MaxId
NoReq == [route |-> "none"]

\* Login { name, username, password }
Logins ==
    { [name |-> "github", username |-> "a", password |-> "p"],
      [name |-> "GitLab", username |-> "b", password |-> "q"] }

\* str::chars() of the names above.
Chars(name) ==
    CASE name = "github" -> <<"g", "i", "t", "h", "u", "b">>
      [] name = "GitLab" -> <<"G", "i", "t", "L", "a", "b">>

\* The characters a query is made of: letters of either case, the space and
\* the characters Pattern::parse gives a meaning to.
QueryChars == {"g", "b", "H", " ", "!", "^", "$", "'"}

\* char::to_lowercase, CaseMatching::Ignore being applied to both sides.
Lower(c) ==
    CASE c = "G" -> "g"
      [] c = "H" -> "h"
      [] c = "L" -> "l"
      [] OTHER -> c

LowerAll(chars) == [i \in 1 .. Len(chars) |-> Lower(chars[i])]

\* HashMap::new()
EmptyMap == [i \in {} |-> CHOOSE l \in Logins : TRUE]

----------------------------------------------------------------------------
(* The file encoding: rmp_serde writes the Database struct as an array of  *)
(* its one serialised field, the logins map; a Uuid is written as 16 raw   *)
(* bytes and a Login as an array of its three strings.                     *)

RECURSIVE SeqsOver(_)
\* The orders in which a HashMap with key set S may be iterated.
SeqsOver(S) ==
    IF S = {} THEN { <<>> }
    ELSE UNION { { <<x>> \o s : s \in SeqsOver(S \ {x}) } : x \in S }

RECURSIVE EncodeEntries(_, _)
EncodeEntries(logins, order) ==
    IF order = <<>> THEN <<>>
    ELSE LET id == Head(order) IN
         << <<"bin16", id>>,
            <<"array", 3>>,
            <<"str", logins[id].name>>,
            <<"str", logins[id].username>>,
            <<"str", logins[id].password>> >>
         \o EncodeEntries(logins, Tail(order))

\* Encode with the last entry of the map left out of the document.
EncodeDropsLast(logins, order) ==
    << <<"array", 1>>, <<"map", Len(order)>> >>
    \o EncodeEntries(logins, SubSeq(order, 1, Len(order) - 1))

\* rmp_serde::encode::to_vec(&self), iterating the map in the given order.
Encode(logins, order) ==
    << <<"array", 1>>, <<"map", Len(order)>> >> \o EncodeEntries(logins, order)

\* HashMap::insert: the new value replaces an old one under the same key.
Insert(logins, id, login) ==
    [i \in DOMAIN logins \cup {id} |-> IF i = id THEN login ELSE logins[i]]

\* HashMap::clear in the place of HashMap::remove.
RemoveClears(logins, id) == [i \in {} |-> logins[i]]

\* HashMap::remove.
Remove(logins, id) ==
    [i \in DOMAIN logins \ {id} |-> logins[i]]

DecodeError == [ok |-> FALSE, logins |-> EmptyMap]

RECURSIVE DecodeEntries(_, _)
\* Reads n map entries from the tokens; DecodeError on anything unexpected.
DecodeEntries(tokens, n) ==
    IF n = 0 THEN [ok |-> TRUE, logins |-> EmptyMap]
    ELSE IF Len(tokens) < 5 THEN DecodeError
    ELSE IF \/ tokens[1][1] # "bin16" \/ tokens[2] # <<"array", 3>>
            \/ tokens[3][1] # "str" \/ tokens[4][1] # "str" \/ tokens[5][1] # "str"
         THEN DecodeError
    ELSE LET rest == DecodeEntries(SubSeq(tokens, 6, Len(tokens)), n - 1) IN
         IF ~rest.ok THEN DecodeError
         ELSE LET login == [name |-> tokens[3][2], username |-> tokens[4][2],
                            password |-> tokens[5][2]] IN
              \* entries are inserted in file order: of two equal keys the later one stays
              IF tokens[1][2] \in DOMAIN rest.logins THEN rest
              ELSE [ok |-> TRUE, logins |-> Insert(rest.logins, tokens[1][2], login)]

\* rmp_serde::decode::from_read of a non-empty file.
Decode(tokens) ==
    IF Len(tokens) < 2 THEN DecodeError
    ELSE IF tokens[1] # <<"array", 1>> \/ tokens[2][1] # "map" THEN DecodeError
    ELSE IF Len(tokens) # 2 + 5 * tokens[2][2] THEN DecodeError
    ELSE DecodeEntries(SubSeq(tokens, 3, Len(tokens)), tokens[2][2])

\* Database::open without its test for a zero-length file.
IsEmptyFileNever(content) == FALSE

\* fs::metadata(&path).len() == 0
IsEmptyFile(content) == Len(content) = 0

\* What Database::open makes of the content of an existing file.
Load(content) ==
    IF IsEmptyFile(content) THEN [ok |-> TRUE, logins |-> EmptyMap]
    ELSE Decode(content)

----------------------------------------------------------------------------
(* Database::query: nucleo_matcher's Pattern::parse(name, CaseMatching::Ignore) *)
(* and Pattern::match_list over the names of the logins.                      *)

RECURSIVE IsSubsequence(_, _)
\* The fuzzy match: the needle's characters occur in the haystack, in order.
IsSubsequence(needle, hay) ==
    IF needle = <<>> THEN TRUE
    ELSE IF hay = <<>> THEN FALSE
    ELSE IF Head(needle) = Head(hay) THEN IsSubsequence(Tail(needle), Tail(hay))
    ELSE IsSubsequence(needle, Tail(hay))

IsPrefix(needle, hay) ==
    Len(needle) <= Len(hay) /\ SubSeq(hay, 1, Len(needle)) = needle

IsPostfix(needle, hay) ==
    Len(needle) <= Len(hay) /\ SubSeq(hay, Len(hay) - Len(needle) + 1, Len(hay)) = needle

IsSubstring(needle, hay) ==
    \E i \in 0 .. Len(hay) - Len(needle) : SubSeq(hay, i + 1, i + Len(needle)) = needle

RECURSIVE Words(_, _)
\* The text split at its spaces; word is the word being read.
Words(chars, word) ==
    IF chars = <<>> THEN << word >>
    ELSE IF Head(chars) = " " THEN << word >> \o Words(Tail(chars), <<>>)
    ELSE Words(Tail(chars), Append(word, Head(chars)))

\* Atom::parse: a leading ! inverts the atom, a leading ^ or ' and a trailing $
\* choose its kind, and an inverted atom without a kind is a substring match.
ParseAtom(word) ==
    LET negative == Len(word) > 0 /\ Head(word) = "!"
        w1 == IF negative THEN Tail(word) ELSE word
        lead == IF Len(w1) > 0 /\ Head(w1) \in {"^", "'"} THEN Head(w1) ELSE ""
        w2 == IF lead # "" THEN Tail(w1) ELSE w1
        dollar == Len(w2) > 0 /\ w2[Len(w2)] = "$"
        w3 == IF dollar THEN SubSeq(w2, 1, Len(w2) - 1) ELSE w2
        kind == IF lead = "^" THEN (IF dollar THEN "exact" ELSE "prefix")
                ELSE IF lead = "'" THEN (IF dollar THEN "exact" ELSE "substring")
                ELSE IF dollar THEN "postfix"
                ELSE IF negative THEN "substring"
                ELSE "fuzzy"
    IN [negative |-> negative, kind |-> kind, needle |-> LowerAll(w3)]

\* Atom::score(..).is_some() for the name of a login.
AtomMatches(atom, name) ==
    LET hay == LowerAll(Chars(name))
        hit == CASE atom.kind = "fuzzy" -> IsSubsequence(atom.needle, hay)
                 [] atom.kind = "substring" -> IsSubstring(atom.needle, hay)
                 [] atom.kind = "prefix" -> IsPrefix(atom.needle, hay)
                 [] atom.kind = "postfix" -> IsPostfix(atom.needle, hay)
                 [] atom.kind = "exact" -> atom.needle = hay
    IN hit # atom.negative

\* Pattern::parse keeps the atoms whose needle is not empty.
Atoms(chars) ==
    LET words == Words(chars, <<>>)
    IN { a \in { ParseAtom(words[i]) : i \in 1 .. Len(words) } : a.needle # <<>> }

\* A pattern that takes the empty text to match no name.
PatternMatchesSomeAtom(chars, name) ==
    /\ Atoms(chars) # {}
    /\ \A atom \in Atoms(chars) : AtomMatches(atom, name)

\* Pattern::match_list keeps an item when every atom matches it, and every item
\* when the pattern has no atom.
PatternMatches(chars, name) ==
    \A atom \in Atoms(chars) : AtomMatches(atom, name)

\* The parameter `query` of a request, and the argument of Database::query.
NoQuery == [kind |-> "absent", chars |-> <<>>]
Text(chars) == [kind |-> "text", chars |-> chars]
Queries ==
    {NoQuery} \cup { Text(cs) : cs \in UNION { [1 .. n -> QueryChars] : n \in 0 .. MaxQuery } }

\* Database::query(name) with the map iterated in the given order: the
\* identifiers of the (id, login) pairs it returns.  match_list orders the
\* matches by score; here they stay in the order of the iteration.
Query(logins, name, order) ==
    IF DOMAIN logins = {} THEN <<>>
    ELSE IF name.kind = "absent" THEN order
    ELSE SelectSeq(order, LAMBDA id : PatternMatches(name.chars, logins[id].name))

----------------------------------------------------------------------------
(* The file system and the processes. *)

NoFile == [exists |-> FALSE, content |-> <<>>]
File(content) == [exists |-> TRUE, content |-> content]

\* Exit status of the process for each way run() ends.
ExitCode(how) ==
    CASE how = "ok" -> 0
      [] how = "not_initialised" -> 0      \* models.rs: std::process::exit(0)
      [] how = "panic" -> 101
      [] OTHER -> 1

ServeStates == {"serve_wait", "serve_respond", "serve_check", "serve_sync", "serve_release"}

\* The process has created the marker and neither removed it nor ended.
Holds(p) ==
    /\ pc[p] \in {"command", "sync", "release"} \cup ServeStates
    /\ releases[p] = 0

Bodies ==
    { [kind |-> k, logins |-> <<>>] : k \in {"read_error", "bad_utf8", "bad_json"} }
    \cup { [kind |-> "json", logins |-> ls] :
             ls \in UNION { [1 .. n -> Logins] : n \in 0 .. MaxBody } }

IdParams ==
    { [kind |-> "missing", val |-> 0], [kind |-> "malformed", val |-> 0] }
    \cup { [kind |-> "uuid", val |-> i] : i \in Ids }

\* The requests a client may send.  A body that add_new never reads (the
\* Content-Type is not application/json) is left as Unread.
Unread == [kind |-> "unread", logins |-> <<>>]
Requests ==
    { [route |-> r] : r \in {"static", "sync", "other", "bad_url"} }
    \cup { [route |-> r, query |-> NoQuery] : r \in {"query_page", "query"} }
    \cup { [route |-> "new", ctype |-> c, body |-> Unread] : c \in {"missing", "text/plain"} }
    \cup { [route |-> "new", ctype |-> "application/json", body |-> b] : b \in Bodies }
    \cup { [route |-> "remove", id |-> i] : i \in IdParams }

\* GET /query and GET /api/v1/query with every query text.
QueryRequests ==
    { [route |-> r, query |-> q] : r \in {"query_page", "query"}, q \in Queries }

\* The state before any process has started, on a disk with room or without.
Start(full) ==
    /\ diskFull = full
    /\ \E initialised \in BOOLEAN :
          /\ confFile = initialised
          /\ dbFile = IF initialised THEN File(<<>>) ELSE NoFile
    /\ lckFile = FALSE
    /\ port = NoProc
    /\ pc = [p \in Procs3 |-> "idle"]
    /\ outcome = [p \in Procs3 |-> "running"]
    /\ db = [p \in Procs3 |-> EmptyMap]
    /\ should_shutdown = [p \in Procs3 |-> FALSE]
    /\ cur = [p \in Procs3 |-> NoReq]
    /\ resp = [p \in Procs3 |-> 0]
    /\ found = [p \in Procs3 |-> <<>>]
    /\ releases = [p \in Procs3 |-> 0]
    /\ removed = [p \in Procs3 |-> {}]

\* Worker ids are 0 .. size - 1, jobs are numbered in the order of exec.
Workers == 0 .. MaxWorkers - 1
Jobs == 1 .. MaxJobs
NoWorker == -1

\* No Threadpool has been made.
NoThreadpool ==
    /\ size = 0
    /\ sender = FALSE
    /\ submitted = 0
    /\ channel = <<>>
    /\ guard = NoWorker
    /\ worker = [w \in Workers |-> "none"]
    /\ job = [w \in Workers |-> 0]
    /\ executed = [j \in Jobs |-> <<>>]
    /\ owner = "none"
    /\ joined = {}

Init == Start(FALSE) /\ NoThreadpool

InitDiskFull == Start(TRUE) /\ NoThreadpool

\* The process ends while it handles the request req, which got the response
\* status (0: none): run() returns, std::process::exit is called, or a panic
\* unwinds.  Its listening socket is closed and its memory is gone.
TerminateIn(p, how, req, status) ==
    /\ pc' = [pc EXCEPT ![p] = "done"]
    /\ outcome' = [outcome EXCEPT ![p] = how]
    /\ port' = IF port = p THEN NoProc ELSE port
    /\ db' = [db EXCEPT ![p] = EmptyMap]
    /\ should_shutdown' = [should_shutdown EXCEPT ![p] = FALSE]
    /\ cur' = [cur EXCEPT ![p] = req]
    /\ resp' = [resp EXCEPT ![p] = status]
    /\ found' = [found EXCEPT ![p] = <<>>]
    /\ removed' = [removed EXCEPT ![p] = {}]

\* The process ends outside the handling of a request.
Terminate(p, how) == TerminateIn(p, how, NoReq, 0)

Goto(p, where) ==
    /\ pc' = [pc EXCEPT ![p] = where]
    /\ UNCHANGED <<outcome, port>>

----------------------------------------------------------------------------
(* Database (models.rs). *)

\* Database::add without its assertion: a login under a taken identifier is
\* replaced.
AddOverwrites(logins, id, login) ==
    [ok |-> TRUE, logins |-> Insert(logins, id, login)]

\* Database::add with the identifier Uuid::new_v4() returned: the insert, and
\* whether assert!(old_val.is_none()) passes.
Add(logins, id, login) ==
    [ok |-> id \notin DOMAIN logins, logins |-> Insert(logins, id, login)]

RECURSIVE AppendLogins(_, _, _)
\* Database::append: add() for each login in turn, ids[i] being the identifier
\* drawn for the i-th; the first failed assertion aborts the loop.
AppendLogins(logins, news, ids) ==
    IF news = <<>> THEN [ok |-> TRUE, logins |-> logins]
    ELSE LET one == Add(logins, Head(ids), Head(news)) IN
         IF ~one.ok THEN one
         ELSE AppendLogins(one.logins, Tail(news), Tail(ids))

\* Database::sync writing into the file without truncating it first.
SyncKeepsTail(p) ==
    /\ dbFile.exists
    /\ \E order \in SeqsOver(DOMAIN db[p]) :
          LET doc == Encode(db[p], order) IN
          dbFile' = File(doc \o SubSeq(dbFile.content, Len(doc) + 1, Len(dbFile.content)))

\* Database::sync returning Ok: the file is opened with truncate (it must exist)
\* and the document, the whole collection in the order the HashMap iterates,
\* goes into the BufWriter.  write_all only fills the buffer (the document is
\* shorter than its 8 KiB); the write(2) is made when the BufWriter is dropped,
\* and an error of that write is dropped with it: on a full disk the file
\* stays truncated or holds a part of the document.
SyncWrites(p) ==
    /\ dbFile.exists
    /\ \E order \in SeqsOver(DOMAIN db[p]) :
          LET doc == Encode(db[p], order) IN
          IF diskFull
          THEN \E n \in 0 .. Len(doc) - 1 : dbFile' = File(SubSeq(doc, 1, n))
          ELSE dbFile' = File(doc)

\* Database::init opening with create(true) in place of create_new(true).
InitNeverFindsFile == FALSE

\* Database::init at the moment of its create_new open: TRUE when the file is there.
InitFindsFile == dbFile.exists

----------------------------------------------------------------------------
(* run() of lib.rs, one action per step that touches the file system. *)

\* `init`: Config::init_interactive, which fails when gondolin.toml exists.
ConfigInit(p) ==
    /\ pc[p] = "idle"
    /\ \/ /\ confFile
          /\ Terminate(p, "config_already_exists")
          /\ UNCHANGED confFile
       \/ /\ ~confFile
          /\ confFile' = TRUE
          /\ Goto(p, "db_init")
          /\ UNCHANGED local
    /\ UNCHANGED <<pool, diskFull, dbFile, lckFile, releases>>

\* `init`: Database::init, then run() returns Ok.
DatabaseInit(p) ==
    /\ pc[p] = "db_init"
    /\ \/ /\ InitFindsFile
          /\ Terminate(p, "db_already_exists")
          /\ UNCHANGED dbFile
       \/ /\ ~InitFindsFile
          /\ dbFile' = File(<<>>)
          /\ Terminate(p, "ok")
    /\ UNCHANGED <<pool, diskFull, confFile, lckFile, releases>>

\* Any other command: Config::open_interactive.
ConfigOpen(p) ==
    /\ pc[p] = "idle"
    /\ \/ /\ ~confFile
          /\ Terminate(p, "not_initialised")
       \/ /\ confFile
          /\ Goto(p, "db_open")
          /\ UNCHANGED local
    /\ UNCHANGED <<pool, diskFull, confFile, dbFile, lckFile, releases>>

\* Database::open: File::open, then the length test and the decoding.
DatabaseOpen(p) ==
    /\ pc[p] = "db_open"
    /\ \/ /\ ~dbFile.exists
          /\ Goto(p, "db_open_init")
          /\ UNCHANGED local
       \/ /\ dbFile.exists
          /\ LET r == Load(dbFile.content) IN
                IF r.ok
                THEN /\ db' = [db EXCEPT ![p] = r.logins]
                     /\ Goto(p, "acquire")
                     /\ UNCHANGED <<should_shutdown, cur, resp, found, removed>>
                ELSE Terminate(p, "error")
    /\ UNCHANGED <<pool, diskFull, confFile, dbFile, lckFile, releases>>

\* Database::open found no file and calls Database::init on the path.
DatabaseOpenInit(p) ==
    /\ pc[p] = "db_open_init"
    /\ \/ /\ InitFindsFile
          /\ Terminate(p, "db_already_exists")
          /\ UNCHANGED dbFile
       \/ /\ ~InitFindsFile
          /\ dbFile' = File(<<>>)
          /\ db' = [db EXCEPT ![p] = EmptyMap]
          /\ Goto(p, "acquire")
          /\ UNCHANGED <<should_shutdown, cur, resp, found, removed>>
    /\ UNCHANGED <<pool, diskFull, confFile, lckFile, releases>>

\* The marker opened with create(true): an existing marker is taken over.
AcquireTakesOver(p) ==
    /\ pc[p] = "acquire"
    /\ lckFile' = TRUE
    /\ Goto(p, "command")
    /\ UNCHANGED local
    /\ UNCHANGED <<pool, diskFull, confFile, dbFile, releases>>

\* OpenOptions::new().create_new(true).write(true).open(&lck_path)
Acquire(p) ==
    /\ pc[p] = "acquire"
    /\ \/ /\ lckFile
          /\ Terminate(p, "already_running")
          /\ UNCHANGED lckFile
       \/ /\ ~lckFile
          /\ lckFile' = TRUE
          /\ Goto(p, "command")
          /\ UNCHANGED local
    /\ UNCHANGED <<pool, diskFull, confFile, dbFile, releases>>

\* `new`: the prompts fail, or the login is added under a fresh Uuid.
CmdNew(p) ==
    /\ pc[p] = "command"
    /\ \/ Terminate(p, "error")
       \/ \E login \in Logins, id \in Ids :
             LET r == Add(db[p], id, login) IN
             IF r.ok
             THEN /\ db' = [db EXCEPT ![p] = r.logins]
                  /\ Goto(p, "sync")
                  /\ UNCHANGED <<should_shutdown, cur, resp, found, removed>>
             ELSE Terminate(p, "panic")
    /\ UNCHANGED <<pool, diskFull, confFile, dbFile, lckFile, releases>>

\* `query`: prints, changes nothing.
CmdQuery(p) ==
    /\ pc[p] = "command"
    /\ Goto(p, "sync")
    /\ UNCHANGED <<pool, diskFull, confFile, dbFile, lckFile, releases, local>>

\* `remove`: the prompt fails, nothing is chosen, or the chosen login is removed.
CmdRemove(p) ==
    /\ pc[p] = "command"
    /\ \/ Terminate(p, "error")
       \/ /\ Goto(p, "sync")
          /\ UNCHANGED local
       \/ \E id \in DOMAIN db[p] :
             /\ db' = [db EXCEPT ![p] = Remove(db[p], id)]
             /\ removed' = [removed EXCEPT ![p] = @ \cup {id}]
             /\ Goto(p, "sync")
             /\ UNCHANGED <<should_shutdown, cur, resp, found>>
    /\ UNCHANGED <<pool, diskFull, confFile, dbFile, lckFile, releases>>

\* `serve`: the flag is registered and the server binds its port, or fails to.
CmdServe(p) ==
    /\ pc[p] = "command"
    /\ \/ /\ port # NoProc
          /\ Terminate(p, "error")
       \/ /\ port = NoProc
          /\ pc' = [pc EXCEPT ![p] = "serve_wait"]
          /\ port' = p
          /\ UNCHANGED <<outcome, local>>
    /\ UNCHANGED <<pool, diskFull, confFile, dbFile, lckFile, releases>>

\* db.sync() at the end of run().
Sync(p) ==
    /\ pc[p] = "sync"
    /\ \/ /\ SyncWrites(p)
          /\ Goto(p, "release")
          /\ UNCHANGED local
       \/ /\ Terminate(p, "error")
          /\ UNCHANGED dbFile
    /\ UNCHANGED <<pool, diskFull, confFile, lckFile, releases>>

\* The end of run() taking a marker that is gone for a marker removed.
ReleaseIgnoresMissing(p) ==
    /\ pc[p] = "release"
    /\ lckFile' = FALSE
    /\ releases' = [releases EXCEPT ![p] = @ + 1]
    /\ Terminate(p, "ok")
    /\ UNCHANGED <<pool, diskFull, confFile, dbFile>>

\* fs::remove_file(lck_path) at the end of run().
Release(p) ==
    /\ pc[p] = "release"
    /\ \/ /\ lckFile
          /\ lckFile' = FALSE
          /\ releases' = [releases EXCEPT ![p] = @ + 1]
          /\ Terminate(p, "ok")
       \/ /\ ~lckFile
          /\ Terminate(p, "lock_gone")
          /\ UNCHANGED <<lckFile, releases>>
    /\ UNCHANGED <<pool, diskFull, confFile, dbFile>>

----------------------------------------------------------------------------
(* serve() of net.rs. *)

\* SIGINT: signal_hook sets should_shutdown.
Sigint(p) ==
    /\ pc[p] \in ServeStates
    /\ ~should_shutdown[p]
    /\ should_shutdown' = [should_shutdown EXCEPT ![p] = TRUE]
    /\ UNCHANGED <<pool, diskFull, confFile, dbFile, lckFile, port, pc, outcome, db, cur, resp,
                   found, releases, removed>>

\* tiny_http answers a Request that is dropped without a response with an
\* empty 500: a handler that returns or unwinds without request.respond().
DropStatus == 500

\* The status the client gets when the handler sent this one, 0 being none.
Sent(status) == IF status = 0 THEN DropStatus ELSE status

\* The handler answered with this status and changed nothing.
Answer(p, req, status) ==
    /\ cur' = [cur EXCEPT ![p] = req]
    /\ resp' = [resp EXCEPT ![p] = status]
    /\ Goto(p, "serve_check")
    /\ UNCHANGED <<dbFile, db, found, removed, should_shutdown>>

\* add_new taking a missing Content-Type header for application/json.
AddNewStatusNoHeader(req) ==
    IF req.ctype = "text/plain" THEN 415
    ELSE IF req.ctype = "missing" THEN 201
    ELSE IF req.body.kind = "read_error" THEN 415
    ELSE IF req.body.kind = "bad_utf8" THEN 0
    ELSE IF req.body.kind = "bad_json" THEN 415
    ELSE 201

\* add_new: status of a POST /api/v1/new that adds nothing, 0 when the handler
\* returns without responding, 201 when the body is accepted.
AddNewStatus(req) ==
    IF req.ctype # "application/json" THEN 415
    ELSE IF req.body.kind = "read_error" THEN 415
    ELSE IF req.body.kind = "bad_utf8" THEN 0
    ELSE IF req.body.kind = "bad_json" THEN 415
    ELSE 201

\* remove_login taking an id that does not parse for the first identifier.
RemoveTargetLenient(req) == IF req.id.kind = "uuid" THEN req.id.val ELSE 1

\* remove_login: the identifier to remove, or 0 when the parameter is missing or
\* does not parse as a Uuid.
RemoveTarget(req) == IF req.id.kind = "uuid" THEN req.id.val ELSE 0

\* The Option<Login> that Database::remove returns: the login stored under
\* the identifier, or none.
RemovedLogin(logins, id) == IF id \in DOMAIN logins THEN << logins[id] >> ELSE <<>>

\* One iteration of the loop up to the test of should_shutdown:
\* server.incoming_requests() yields the request, its url is parsed, the route
\* is matched and its handler runs.
Handle(p, req) ==
    /\ pc[p] = "serve_wait"
    /\ \/ /\ req.route = "bad_url"
          \* std::process::exit(1) runs no destructor: the request gets nothing
          /\ TerminateIn(p, "bad_url", req, 0)
          /\ UNCHANGED dbFile
       \/ /\ req.route = "static"
          /\ Answer(p, req, 200)
       \/ /\ req.route \in {"query_page", "query"}
          /\ \E order \in SeqsOver(DOMAIN db[p]) :
                found' = [found EXCEPT ![p] = Query(db[p], req.query, order)]
          /\ cur' = [cur EXCEPT ![p] = req]
          /\ resp' = [resp EXCEPT ![p] = 200]
          /\ Goto(p, "serve_check")
          /\ UNCHANGED <<dbFile, db, removed, should_shutdown>>
       \/ /\ req.route = "other"
          /\ Answer(p, req, 404)
       \/ /\ req.route = "sync"
          /\ \/ /\ TerminateIn(p, "error", req, Sent(0))
                /\ UNCHANGED dbFile
             \/ /\ SyncWrites(p)
                /\ cur' = [cur EXCEPT ![p] = req]
                /\ resp' = [resp EXCEPT ![p] = 204]
                /\ Goto(p, "serve_respond")
                /\ UNCHANGED <<db, found, removed, should_shutdown>>
       \/ /\ req.route = "new"
          /\ AddNewStatus(req) # 201
          /\ Answer(p, req, Sent(AddNewStatus(req)))
       \/ /\ req.route = "new"
          /\ AddNewStatus(req) = 201
          /\ \E ids \in [1 .. Len(req.body.logins) -> Ids] :
                LET r == AppendLogins(db[p], req.body.logins, ids) IN
                IF r.ok
                THEN /\ db' = [db EXCEPT ![p] = r.logins]
                     /\ cur' = [cur EXCEPT ![p] = req]
                     /\ resp' = [resp EXCEPT ![p] = 201]
                     /\ Goto(p, "serve_check")
                     /\ UNCHANGED <<found, removed, should_shutdown>>
                ELSE TerminateIn(p, "panic", req, Sent(0))
          /\ UNCHANGED dbFile
       \/ /\ req.route = "remove"
          /\ RemovedLogin(db[p], RemoveTarget(req)) = <<>>
          /\ Answer(p, req, 404)
       \/ /\ req.route = "remove"
          /\ RemovedLogin(db[p], RemoveTarget(req)) # <<>>
          /\ db' = [db EXCEPT ![p] = Remove(db[p], RemoveTarget(req))]
          /\ removed' = [removed EXCEPT ![p] = @ \cup {RemoveTarget(req)}]
          /\ cur' = [cur EXCEPT ![p] = req]
          /\ resp' = [resp EXCEPT ![p] = 204]
          /\ Goto(p, "serve_check")
          /\ UNCHANGED <<dbFile, found, should_shutdown>>
    /\ UNCHANGED <<pool, diskFull, confFile, lckFile, releases>>

\* GET /api/v1/sync after the sync: request.respond() succeeds and the loop
\* `continue`s, or it fails, a warning is logged and the iteration goes on.
Respond(p) ==
    /\ pc[p] = "serve_respond"
    /\ \/ /\ Goto(p, "serve_wait")
          /\ cur' = [cur EXCEPT ![p] = NoReq]
          /\ resp' = [resp EXCEPT ![p] = 0]
       \/ /\ Goto(p, "serve_check")
          /\ UNCHANGED <<cur, resp>>
    /\ UNCHANGED <<pool, diskFull, confFile, dbFile, lckFile, db, should_shutdown, found, releases,
                   removed>>

\* if should_shutdown.load(Ordering::Relaxed): the end of the iteration.
Check(p) ==
    /\ pc[p] = "serve_check"
    /\ Goto(p, IF should_shutdown[p] THEN "serve_sync" ELSE "serve_wait")
    /\ cur' = [cur EXCEPT ![p] = NoReq]
    /\ resp' = [resp EXCEPT ![p] = 0]
    /\ found' = [found EXCEPT ![p] = <<>>]
    /\ UNCHANGED <<pool, diskFull, confFile, dbFile, lckFile, db, should_shutdown, releases, removed>>

\* should_shutdown was set: db.sync()
ServeSync(p) ==
    /\ pc[p] = "serve_sync"
    /\ \/ /\ SyncWrites(p)
          /\ Goto(p, "serve_release")
          /\ UNCHANGED local
       \/ /\ Terminate(p, "error")
          /\ UNCHANGED dbFile
    /\ UNCHANGED <<pool, diskFull, confFile, lckFile, releases>>

\* should_shutdown was set: fs::remove_file(lck_path), and the loop goes on.
ServeRelease(p) ==
    /\ pc[p] = "serve_release"
    /\ \/ /\ lckFile
          /\ lckFile' = FALSE
          /\ releases' = [releases EXCEPT ![p] = @ + 1]
          /\ Goto(p, "serve_wait")
          /\ UNCHANGED local
       \/ /\ ~lckFile
          /\ Terminate(p, "lock_gone")
          /\ UNCHANGED <<lckFile, releases>>
    /\ UNCHANGED <<pool, diskFull, confFile, dbFile>>

----------------------------------------------------------------------------
(* Threadpool (threadpool.rs). *)

\* Threadpool::new(n): the channel is made and n workers are spawned, each
\* about to lock the receiver.
New(n) ==
    /\ size = n
    /\ sender = TRUE
    /\ submitted = 0
    /\ channel = <<>>
    /\ guard = NoWorker
    /\ worker = [w \in Workers |-> IF w < n THEN "lock" ELSE "none"]
    /\ job = [w \in Workers |-> 0]
    /\ executed = [j \in Jobs |-> <<>>]
    /\ owner = "exec"
    /\ joined = {}

\* The Receiver lives in an Arc every worker thread holds: it is there as
\* long as one of the threads has not ended.
ReceiverAlive(workers) == \E w \in Workers : workers[w] \in {"lock", "recv", "job"}

\* Threadpool::exec(f): the job is boxed and sent; the channel is unbounded.
\* With the Receiver gone send returns the job in an Err, unwrap panics and the
\* unwinding drops the pool.
Exec(j) ==
    /\ owner = "exec"
    /\ sender
    /\ j = submitted + 1
    /\ IF ReceiverAlive(worker)
          THEN channel' = Append(channel, j) /\ submitted' = j /\ owner' = owner
          ELSE UNCHANGED <<channel, submitted>> /\ owner' = "take"
    /\ UNCHANGED <<size, sender, guard, worker, job, executed, joined, program>>

\* The pool goes out of scope: Threadpool::drop starts its loop over the workers.
DropPool ==
    /\ owner = "exec"
    /\ owner' = "take"
    /\ UNCHANGED <<size, sender, submitted, channel, guard, worker, job, executed, joined, program>>

\* drop(self.sender.take()): the first pass drops the Sender, the later ones
\* find None.
TakeSender ==
    /\ owner = "take"
    /\ sender' = FALSE
    /\ owner' = "join"
    /\ UNCHANGED <<size, submitted, channel, guard, worker, job, executed, joined, program>>

\* handle.join().unwrap() of the next worker: join returns once the thread has
\* ended, Ok when it left its loop and Err when it panicked, and unwrap then
\* panics out of drop, leaving the later workers unjoined.
Join ==
    /\ owner = "join"
    /\ LET w == Cardinality(joined) IN
          /\ worker[w] \in {"ended", "panicked"}
          /\ joined' = joined \cup {w}
          /\ owner' = IF worker[w] = "panicked" THEN "panicked"
                       ELSE IF w + 1 = size THEN "dropped" ELSE "take"
    /\ UNCHANGED <<size, sender, submitted, channel, guard, worker, job, executed, program>>

\* receiver.lock().unwrap(): the worker gets the Mutex when no one holds it.
Lock(w) ==
    /\ worker[w] = "lock"
    /\ guard = NoWorker
    /\ guard' = w
    /\ worker' = [worker EXCEPT ![w] = "recv"]
    /\ UNCHANGED <<size, sender, submitted, channel, job, executed, owner, joined, program>>

\* .recv() under the lock: it returns the oldest job, or Err once the Sender
\* is dropped and the channel is empty, and blocks otherwise; the guard is
\* dropped at the end of the statement.
Recv(w) ==
    /\ worker[w] = "recv"
    /\ \/ /\ channel # <<>>
          /\ job' = [job EXCEPT ![w] = Head(channel)]
          /\ channel' = Tail(channel)
          /\ worker' = [worker EXCEPT ![w] = "job"]
       \/ /\ channel = <<>>
          /\ ~sender
          /\ worker' = [worker EXCEPT ![w] = "ended"]
          /\ UNCHANGED <<job, channel>>
    /\ guard' = NoWorker
    /\ UNCHANGED <<size, sender, submitted, executed, owner, joined, program>>

\* Ok(job) => job(): the job returns and the loop starts over.
RunJob(w) ==
    /\ worker[w] = "job"
    /\ executed' = [executed EXCEPT ![job[w]] = Append(@, w)]
    /\ job' = [job EXCEPT ![w] = 0]
    /\ worker' = [worker EXCEPT ![w] = "lock"]
    /\ UNCHANGED <<size, sender, submitted, channel, guard, owner, joined, program>>

\* Ok(job) => job(): the job panics. Nothing catches the unwinding, which ends
\* the worker's thread; the guard was dropped before, so the Mutex is not
\* poisoned. The last thread to end drops the Receiver and, with it, the jobs
\* still in the channel.
Panic(w) ==
    /\ worker[w] = "job"
    /\ executed' = [executed EXCEPT ![job[w]] = Append(@, w)]
    /\ job' = [job EXCEPT ![w] = 0]
    /\ worker' = [worker EXCEPT ![w] = "panicked"]
    /\ channel' = IF ReceiverAlive(worker') THEN channel ELSE <<>>
    /\ UNCHANGED <<size, sender, submitted, guard, owner, joined, program>>

----------------------------------------------------------------------------
(* Specifications. *)

\* Two processes, every command and every request.
Next ==
    \E p \in Procs :
       \/ ConfigInit(p)
       \/ DatabaseInit(p)
       \/ ConfigOpen(p)
       \/ DatabaseOpen(p)
       \/ DatabaseOpenInit(p)
       \/ Acquire(p)
       \/ CmdNew(p)
       \/ CmdQuery(p)
       \/ CmdRemove(p)
       \/ CmdServe(p)
       \/ Sync(p)
       \/ Release(p)
       \/ Sigint(p)
       \/ \E req \in Requests : Handle(p, req)
       \/ Respond(p)
       \/ Check(p)
       \/ ServeSync(p)
       \/ ServeRelease(p)

Spec == Init /\ [][Next]_vars

\* Three processes running `init`, `new`, `query` or `remove`.
NextCli ==
    \E p \in Procs3 :
       \/ ConfigInit(p)
       \/ DatabaseInit(p)
       \/ ConfigOpen(p)
       \/ DatabaseOpen(p)
       \/ DatabaseOpenInit(p)
       \/ Acquire(p)
       \/ CmdNew(p)
       \/ CmdQuery(p)
       \/ CmdRemove(p)
       \/ Sync(p)
       \/ Release(p)

SpecCli == Init /\ [][NextCli]_vars

\* Three processes running `query` or `serve`, the server being sent requests
\* for unknown paths only.
Next3 ==
    \E p \in Procs3 :
       \/ ConfigOpen(p)
       \/ DatabaseOpen(p)
       \/ Acquire(p)
       \/ CmdQuery(p)
       \/ CmdServe(p)
       \/ Sync(p)
       \/ Release(p)
       \/ Sigint(p)
       \/ Handle(p, [route |-> "other"])
       \/ Check(p)
       \/ ServeSync(p)
       \/ ServeRelease(p)

Spec3 == Init /\ [][Next3]_vars

\* One process running `serve`, sent every request but the queries with a text.
NextHttp ==
    \E p \in {"p1"} :
       \/ ConfigOpen(p)
       \/ DatabaseOpen(p)
       \/ Acquire(p)
       \/ CmdServe(p)
       \/ Sigint(p)
       \/ \E req \in Requests : Handle(p, req)
       \/ Respond(p)
       \/ Check(p)
       \/ ServeSync(p)
       \/ ServeRelease(p)

SpecHttp == Init /\ [][NextHttp]_vars

\* The same server on a disk without room.
SpecHttpDiskFull == InitDiskFull /\ [][NextHttp]_vars

\* One process running `serve`, sent logins and queries.
NextQuery ==
    \E p \in {"p1"} :
       \/ ConfigOpen(p)
       \/ DatabaseOpen(p)
       \/ Acquire(p)
       \/ CmdServe(p)
       \/ \E req \in QueryRequests \cup { r \in Requests : r.route = "new" } : Handle(p, req)
       \/ Check(p)

SpecQuery == Init /\ [][NextQuery]_vars

\* A Threadpool of one worker or more, used and then dropped.
InitPool == Start(FALSE) /\ \E n \in 1 .. MaxWorkers : New(n)

NextPool ==
    \/ \E j \in Jobs : Exec(j)
    \/ DropPool
    \/ TakeSender
    \/ Join
    \/ \E w \in Workers : Lock(w)
    \/ \E w \in Workers : Recv(w)
    \/ \E w \in Workers : RunJob(w)
    \/ \E w \in Workers : Panic(w)

SpecPool == InitPool /\ [][NextPool]_vars

\* The scheduler lets every thread that can take a step take one, and every
\* job comes to an end, by returning or by panicking.
FairPool ==
    /\ WF_vars(TakeSender)
    /\ WF_vars(Join)
    /\ \A w \in Workers :
          /\ WF_vars(Lock(w))
          /\ WF_vars(Recv(w))
          /\ WF_vars(RunJob(w) \/ Panic(w))

SpecPoolFair == SpecPool /\ FairPool

----------------------------------------------------------------------------
(* The claims. *)

\* C1: no two processes hold the instance lock at the same time: each created
\* the marker gondolin.lck and has neither removed it nor ended.
C1_MutualExclusion ==
    \A p \in Procs3, q \in Procs3 : p # q => ~(Holds(p) /\ Holds(q))

\* C2: a process reads the record store file only while it holds the instance
\* lock: the step in which Database::open reads the file is taken by a holder.
C2_LockBeforeOpen ==
    [][\A p \in Procs :
          (pc[p] = "db_open" /\ pc'[p] # pc[p]) => Holds(p)]_vars

\* C3: when should_shutdown is set as a request finishes being handled, the
\* server waits for the next request only after the store was synced and the
\* marker removed: with the flag set, the loop returns to waiting from the
\* release alone, the release follows the sync and the sync writes the store.
C3_ShutdownAfterEveryRequest ==
    [][\A p \in Procs :
          /\ (should_shutdown[p] /\ pc[p] # "serve_wait" /\ pc'[p] = "serve_wait")
                => (pc[p] = "serve_release" /\ ~lckFile')
          /\ (pc'[p] = "serve_release" /\ pc[p] # "serve_release")
                => (pc[p] = "serve_sync" /\ Load(dbFile'.content).logins = db[p])]_vars

\* C4: a server that has processed the should_shutdown (store synced, marker removed)
\* handles no further request.
C4_NoRequestAfterShutdown ==
    \A p \in Procs : releases[p] >= 1 => pc[p] \notin {"serve_respond", "serve_check"}

\* C5: a process removes the marker once and never attempts a second removal
\* that finds the marker already gone.
C5_ReleaseExactlyOnce ==
    \A p \in Procs :
       /\ releases[p] <= 1
       /\ releases[p] = 1 => outcome[p] # "lock_gone"

\* The step is a successful Database::sync of process p.
SyncedBy(p) ==
    \/ pc[p] = "sync" /\ pc'[p] = "release"
    \/ pc[p] = "serve_sync" /\ pc'[p] = "serve_release"
    \/ pc[p] = "serve_wait" /\ pc'[p] = "serve_respond"

\* C6: what Database::open makes of the file a sync has just written is the
\* synced collection: the same identifiers with the same name, username and
\* password, in whatever order the map was written.
C6_SyncThenOpen ==
    [][\A p \in Procs3 :
          SyncedBy(p) => Load(dbFile'.content) = [ok |-> TRUE, logins |-> db[p]]]_vars

\* A process has opened a file that holds two or more synced records.
C6_Witness ==
    \E p \in Procs3 :
       /\ pc[p] = "acquire"
       /\ Cardinality(DOMAIN db[p]) >= 2
       /\ Len(dbFile.content) > 0
       /\ Load(dbFile.content).logins = db[p]

\* C7: Database::init on a path where a file exists ends the process with the
\* already-exists outcome and leaves the file as it was; otherwise it creates
\* the file, empty.
C7_InitOnExistingFile ==
    [][\A p \in Procs3 :
          (pc[p] \in {"db_init", "db_open_init"} /\ pc'[p] # pc[p]) =>
             IF dbFile.exists
             THEN /\ pc'[p] = "done"
                  /\ outcome'[p] = "db_already_exists"
                  /\ dbFile' = dbFile
             ELSE /\ dbFile' = File(<<>>)
                  /\ outcome'[p] \in {"ok", "running"}]_vars

\* Database::init has failed on a file that holds records, and it still does.
C7_Witness ==
    \E p \in Procs3 :
       /\ outcome[p] = "db_already_exists"
       /\ dbFile.exists
       /\ Len(dbFile.content) > 0

\* C8: Database::open on a path where no file exists creates no file and
\* returns no store: once File::open has reported NotFound, the call fails
\* and the file system is as it was.
C8_OpenMissingFails ==
    [][\A p \in Procs :
          (pc[p] = "db_open_init" /\ pc'[p] # pc[p])
             => (pc'[p] = "done" /\ dbFile' = dbFile)]_vars

\* C9: Database::open on an existing zero-length file returns a store with an
\* empty collection and does not fail.
C9_OpenEmptyFile ==
    [][\A p \in Procs3 :
          (pc[p] = "db_open" /\ dbFile.exists /\ Len(dbFile.content) = 0
             /\ pc'[p] # pc[p])
             => (pc'[p] = "acquire" /\ outcome'[p] = "running" /\ db'[p] = EmptyMap)]_vars

\* A process has opened the zero-length file of a fresh installation.
C9_Witness ==
    \E p \in Procs3 :
       /\ pc[p] = "acquire"
       /\ \A q \in Procs3 \ {p} : pc[q] = "idle"
       /\ dbFile.exists
       /\ Len(dbFile.content) = 0
       /\ db[p] = EmptyMap

\* C10: no identifier that was a key of a store and was removed is a key of
\* that store again.
C10_IdsNeverReused ==
    \A p \in Procs : DOMAIN db[p] \cap removed[p] = {}

\* The identifiers in a result of Database::query.
Ids_of(matches) == { matches[i] : i \in 1 .. Len(matches) }

\* The step is remove_login calling Database::remove with the identifier id.
RemoveCalled(p, id) ==
    /\ pc[p] = "serve_wait"
    /\ pc'[p] = "serve_check"
    /\ cur'[p].route = "remove"
    /\ cur'[p].id = [kind |-> "uuid", val |-> id]

\* C11: remove(id) returns the stored login and deletes that entry alone when
\* id is a key, returns none and changes nothing when it is not; a second
\* remove(id) right after it returns none and changes nothing.
C11_RemoveContract ==
    [][\A p \in Procs, id \in Ids :
          RemoveCalled(p, id) =>
             /\ id \in DOMAIN db[p] =>
                   /\ RemovedLogin(db[p], id) = << db[p][id] >>
                   /\ DOMAIN db'[p] = DOMAIN db[p] \ {id}
                   /\ \A j \in DOMAIN db'[p] : db'[p][j] = db[p][j]
             /\ id \notin DOMAIN db[p] =>
                   /\ RemovedLogin(db[p], id) = <<>>
                   /\ db'[p] = db[p]
             /\ RemovedLogin(db'[p], id) = <<>>
             /\ Remove(db'[p], id) = db'[p]]_vars

\* A login was removed, the same identifier was asked to be removed again and
\* another login is still stored.
C11_Witness ==
    \E p \in Procs :
       /\ pc[p] = "serve_check"
       /\ cur[p].route = "remove"
       /\ cur[p].id.kind = "uuid"
       /\ cur[p].id.val \in removed[p] \ DOMAIN db[p]
       /\ DOMAIN db[p] # {}

\* The step answered a query request.
Queried(p) ==
    /\ pc[p] = "serve_check"
    /\ cur[p].route \in {"query_page", "query"}

\* C12: a query without a name or with the empty text returns every stored
\* entry exactly once, and any query on an empty collection returns nothing.
C12_QueryAll ==
    \A p \in Procs :
       Queried(p) =>
          /\ (cur[p].query.kind = "absent" \/ cur[p].query.chars = <<>>) =>
                /\ Len(found[p]) = Cardinality(DOMAIN db[p])
                /\ Ids_of(found[p]) = DOMAIN db[p]
          /\ DOMAIN db[p] = {} => found[p] = <<>>

\* The empty text was queried on a collection of two logins, and both came back.
C12_Witness ==
    \E p \in Procs :
       /\ Queried(p)
       /\ cur[p].query = Text(<<>>)
       /\ Cardinality(DOMAIN db[p]) = 2
       /\ Len(found[p]) = 2

\* C13: for a query with a non-empty text, a stored login is in the result
\* exactly when the characters of the text occur in its name in order, the
\* case of the letters being ignored.
C13_SubsequenceMatch ==
    \A p \in Procs :
       (Queried(p) /\ cur[p].query.kind = "text" /\ cur[p].query.chars # <<>>) =>
          \A id \in DOMAIN db[p] :
             id \in Ids_of(found[p])
                <=> IsSubsequence(LowerAll(cur[p].query.chars),
                                  LowerAll(Chars(db[p][id].name)))

\* The step takes a request for this route from the queue and handles it.
Handled(p, route) ==
    /\ pc[p] = "serve_wait"
    /\ cur'[p].route = route

\* C14: the content of gondolin.db changes only in a step that is a sync, or
\* Database::init creating the file; the steps that add, remove and query,
\* from the console or for a request, leave it as it is; and the file a sync
\* has written decodes to the whole collection of the process that synced.
C14_FileWrittenBySyncOnly ==
    [][/\ dbFile' # dbFile =>
            \E p \in Procs3 :
               \/ SyncedBy(p)
               \/ /\ pc[p] \in {"db_init", "db_open_init"}
                  /\ ~dbFile.exists
                  /\ dbFile' = File(<<>>)
       /\ \A p \in Procs3 :
             /\ (\/ pc[p] = "command" /\ pc'[p] # "command"
                 \/ \E route \in {"new", "remove", "query", "query_page"} : Handled(p, route))
                   => dbFile' = dbFile
             /\ SyncedBy(p) =>
                   /\ dbFile'.exists
                   /\ Decode(dbFile'.content) = [ok |-> TRUE, logins |-> db[p]]]_vars

\* A POST /api/v1/new has added a login; the file holds the collection of an
\* earlier sync, which is not the current one.
C14_Witness ==
    \E p \in Procs3 :
       /\ pc[p] = "serve_check"
       /\ cur[p].route = "new"
       /\ resp[p] = 201
       /\ Len(dbFile.content) > 0
       /\ Load(dbFile.content).logins # db[p]

\* C15: every request the server has taken from the queue has got a response
\* by the time its handling is over: the server is at the end of the iteration
\* or has ended in it.
C15_EveryRequestAnswered ==
    \A p \in Procs : cur[p].route # "none" => resp[p] # 0

\* C16: a POST /api/v1/new without a Content-Type header, or with one other
\* than application/json, is answered with 415 and leaves the collection as
\* it is.
C16_WrongContentType ==
    [][\A p \in Procs :
          (Handled(p, "new") /\ cur'[p].ctype # "application/json") =>
             /\ pc'[p] = "serve_check"
             /\ resp'[p] = 415
             /\ db'[p] = db[p]]_vars

\* A POST without a Content-Type header got 415 from a server that stores a login.
C16_Witness ==
    \E p \in Procs :
       /\ pc[p] = "serve_check"
       /\ cur[p].route = "new"
       /\ cur[p].ctype = "missing"
       /\ resp[p] = 415
       /\ DOMAIN db[p] # {}

\* C17: a POST /api/v1/new with Content-Type application/json whose body is
\* not UTF-8, or not a JSON array of logins, is answered with 415 and adds
\* nothing.
C17_BadBody ==
    [][\A p \in Procs :
          (/\ Handled(p, "new")
           /\ cur'[p].ctype = "application/json"
           /\ cur'[p].body.kind \in {"bad_utf8", "bad_json"}) =>
             /\ pc'[p] = "serve_check"
             /\ resp'[p] = 415
             /\ db'[p] = db[p]]_vars

C19_RemoveStatus ==
    [][\A p \in Procs :
          Handled(p, "remove") =>
             LET id == cur'[p].id IN
             /\ pc'[p] = "serve_check"
             /\ IF id.kind = "uuid" /\ id.val \in DOMAIN db[p]
                THEN /\ resp'[p] = 204
                     /\ db'[p] = [i \in DOMAIN db[p] \ {id.val} |-> db[p][i]]
                ELSE /\ resp'[p] = 404
                     /\ db'[p] = db[p]
             /\ resp'[p] = 204 => id.val \notin DOMAIN db'[p]]_vars

\* A DELETE got 204 and the login it named is gone, another one is left.
C19_Witness ==
    \E p \in Procs :
       /\ pc[p] = "serve_check"
       /\ cur[p].route = "remove"
       /\ resp[p] = 204
       /\ cur[p].id.val \notin DOMAIN db[p]
       /\ DOMAIN db[p] # {}

\* C20: a GET /api/v1/sync is answered with 204 once the file holds the
\* collection, and with 500 when the write has failed; it gets its response
\* either way.
C20_SyncStatus ==
    [][\A p \in Procs :
          Handled(p, "sync") =>
             \/ /\ resp'[p] = 204
                /\ Load(dbFile'.content) = [ok |-> TRUE, logins |-> db[p]]
             \/ resp'[p] = 500]_vars

\* C21: when the marker exists as a process tries to create it, the process
\* ends in that step with a non-zero exit status, the store file and the
\* marker being left as they are; it runs no command, syncs nothing and
\* removes no marker afterwards.
C21_AcquireFails ==
    [][\A p \in Procs3 :
          /\ (pc[p] = "acquire" /\ lckFile /\ pc'[p] # pc[p]) =>
                /\ pc'[p] = "done"
                /\ outcome'[p] = "already_running"
                /\ ExitCode(outcome'[p]) # 0
                /\ dbFile' = dbFile
                /\ lckFile'
          /\ outcome[p] = "already_running" =>
                /\ pc'[p] = "done"
                /\ outcome'[p] = outcome[p]
                /\ releases'[p] = 0]_vars

\* A process was turned away while another one holds the lock, and the marker
\* is still there.
C21_Witness ==
    \E p, q \in Procs3 :
       /\ outcome[p] = "already_running"
       /\ Holds(q)
       /\ lckFile

\* C22: a process that finds the marker gone when it releases the lock, at
\* the end of run() or in the shutdown of serve(), ends with a non-zero exit
\* status and not as a normal completion.
C22_ReleaseAnomaly ==
    [][\A p \in Procs3 :
          (pc[p] \in {"release", "serve_release"} /\ ~lckFile /\ pc'[p] # pc[p]) =>
             /\ pc'[p] = "done"
             /\ outcome'[p] # "ok"
             /\ ExitCode(outcome'[p]) # 0]_vars

\* A process has ended on a release that found no marker.
C22_Witness ==
    \E p \in Procs3 : outcome[p] = "lock_gone" /\ ~lckFile

\* C23: no update is lost: a sync does not take out of the file an entry the
\* syncing process has not removed itself, so what a process that completed
\* has added stays in the file when the next process completes.
C23_NoLostUpdate ==
    [][\A p \in Procs3 :
          (pc[p] = "sync" /\ pc'[p] = "release") =>
             LET before == Load(dbFile.content).logins IN
             \A id \in DOMAIN before :
                \/ id \in removed[p]
                \/ id \in DOMAIN db[p] /\ db[p][id] = before[id]]_vars

\* C24: every sync of a command other than init, the syncs of GET
\* /api/v1/sync and of the shutdown included, is made by a process that holds
\* the lock.
C24_SyncUnderLock ==
    [][\A p \in Procs : SyncedBy(p) => Holds(p)]_vars

\* C25: a process that holds the lock does not end without removing the
\* marker, whichever way run() ends.
C25_EveryEndReleases ==
    [][\A p \in Procs3 :
          (Holds(p) /\ pc'[p] = "done") => ~lckFile']_vars

\* C26: when the init command ends, the configuration file and the database
\* file were both created by it or neither was: Database::init failing
\* leaves no configuration file the command has created.
C26_InitAllOrNothing ==
    [][\A p \in Procs3 :
          (pc[p] = "db_init" /\ pc'[p] = "done") =>
             (outcome'[p] = "ok" \/ ~confFile')]_vars

\* How many times x occurs in the sequence.
Count(seq, x) == Cardinality({ i \in 1 .. Len(seq) : seq[i] = x })

\* C27: every job exec has sent is in one place only: waiting in the channel,
\* held by one worker, or executed, once, by one worker; none is lost and
\* none is run twice, and what was not sent is never run.
C27_JobsRunOnce ==
    \A j \in Jobs :
       Count(channel, j) + Cardinality({ w \in Workers : job[w] = j }) + Len(executed[j])
          = IF j <= submitted THEN 1 ELSE 0

\* C28: every job ending, once Threadpool::drop has started it comes to its
\* end, by returning or by panicking, and at its end the Sender is dropped,
\* every job exec has sent has been executed, every worker has left its loop
\* and was joined, and no worker holds or waits for the receiver.
C28_DropTerminates ==
    /\ (owner \in {"take", "join"}) ~> (owner \in {"dropped", "panicked"})
    /\ [](owner \in {"dropped", "panicked"} =>
            /\ ~sender
            /\ channel = <<>>
            /\ \A j \in Jobs : j <= submitted => Len(executed[j]) = 1
            /\ \A w \in Workers :
                  w < size => worker[w] \in {"ended", "panicked"} /\ w \in joined
            /\ guard = NoWorker)

====
